---- MODULE Spec2Model ----
(***************************************************************************)
(* Model of the set_env_perm crate (src/lib.rs): persisting environment    *)
(* variable assignments in the user's shell profile (Unix) or in the       *)
(* managed PowerShell profile script (Windows).                            *)
(*                                                                         *)
(* Text is modelled as a sequence of tokens.  A token is an atomic piece   *)
(* of text (a format-string literal, a caller-supplied name or value, a    *)
(* line terminator character); concatenation of text is \o.  The SHELL     *)
(* value and the registry's shell names are sequences of characters, so    *)
(* that str::contains is a real substring search.  A path below the home   *)
(* directory is the sequence of its components.                            *)
(***************************************************************************)
EXTENDS Integers, Sequences, FiniteSets, TLC

VARIABLES
    shellEnv,   \* Unix: the SHELL entry of the process environment
    env,        \* the process environment entry of every variable name
    homeDir,    \* Unix: dirs::home_dir() is Some
    canMkdir,   \* Unix: creating a missing directory succeeds
    canOpen,    \* Unix: opening the resolved profile for appending succeeds
    fs,         \* Unix: content of every candidate file below home, or Absent
    dirs,       \* Unix: the directories below home that exist
    docDir,     \* Windows: dirs::document_dir() is Some
    psDir,      \* Windows: <documents>/WindowsPowerShell exists
    profile,    \* Windows: content of Profile.ps1, or Absent
    last,       \* record of the most recent call (inputs, result, state before)
    log,        \* Unix: the texts written by the successful calls, in call order
    calls       \* number of calls made

vars == <<shellEnv, env, homeDir, canMkdir, canOpen, fs, dirs, docDir, psDir, profile,
          last, log, calls>>

unixVars == <<shellEnv, homeDir, canMkdir, canOpen, fs, dirs, log>>
winVars  == <<docDir, psDir, profile>>

\* ------------------------------------------------------------------ bounds
MaxCalls == 2
MaxLines == 3

\* ------------------------------------------------------------ text tokens
LF == "<LF>"
CR == "<CR>"
QUOTE == "<QUOTE>"

\* a file that does not exist
Absent == <<"<absent>">>

Vars == {"DUMMY", "PATH"}
Vals == {"1"}

IsPrefix(s, t) == Len(s) <= Len(t) /\ SubSeq(t, 1, Len(s)) = s

\* str::contains on character sequences
Contains(s, name) ==
    \E i \in 0..(Len(s) - Len(name)) : SubSeq(s, i + 1, i + Len(name)) = name

\* ------------------------------------------------------- process environment
\* std::env::var: Ok for a present, validly encoded value, Err otherwise
EnvVarIsOk(st) == st = "Present"

\* get(var)
get(var) ==
    CASE env[var] = "Present"    -> "Ok"
      [] env[var] = "NotPresent" -> "NotFound"
      [] env[var] = "NotUnicode" -> "Unsupported"

\* ------------------------------------------------------------ shell registry
zsh  == <<"z", "s", "h">>
fish == <<"f", "i", "s", "h">>
tcsh == <<"t", "c", "s", "h">>
csh  == <<"c", "s", "h">>
ksh  == <<"k", "s", "h">>
bash == <<"b", "a", "s", "h">>

SHELLS == <<
    [name |-> zsh,  config_files |-> << <<".zprofile">>, <<".zshrc">>, <<".zlogin">> >>],
    [name |-> fish, config_files |-> << <<".config", "fish", "config.fish">> >>],
    [name |-> tcsh, config_files |-> << <<".tcshrc">>, <<".cshrc">>, <<".login">> >>],
    [name |-> csh,  config_files |-> << <<".tcshrc">>, <<".cshrc">>, <<".login">> >>],
    [name |-> ksh,  config_files |-> << <<".profile">>, <<".kshrc">> >>],
    [name |-> bash, config_files |-> << <<".bash_profile">>, <<".bash_login">>, <<".bashrc">> >>]
>>

DotProfile == <<".profile">>

ConfigFilesOf(i) == {SHELLS[i].config_files[j] : j \in 1..Len(SHELLS[i].config_files)}

Paths == UNION {ConfigFilesOf(i) : i \in 1..Len(SHELLS)} \cup {DotProfile}

\* env::var("SHELL").unwrap_or_default()
shell_env == IF EnvVarIsOk(shellEnv.st) THEN shellEnv.val ELSE <<>>

\* SHELLS.iter().find(|s| shell_env.contains(s.name)): index of the first
\* matching entry, 0 when there is none
selected_shell ==
    LET hits == {i \in 1..Len(SHELLS) : Contains(shell_env, SHELLS[i].name)}
    IN  IF hits = {} THEN 0 ELSE CHOOSE i \in hits : \A j \in hits : i <= j

\* Path::exists for a candidate below home
Exists(path) == fs[path] # Absent

\* Path::parent and the directories create_dir_all makes
Parent(path) == SubSeq(path, 1, Len(path) - 1)
Ancestors(dir) == {SubSeq(dir, 1, k) : k \in 1..Len(dir)}
CreateDirAllOk(dir) == dir \in dirs \/ canMkdir

\* the loop of find_profile without the existence test: always the default
WalkConfigFilesFirst(files, i) ==
    [ok |-> TRUE, path |-> files[1], dirs |-> dirs]

RECURSIVE WalkConfigFiles(_, _)
WalkConfigFiles(files, i) ==
    IF i > Len(files)
    THEN [ok |-> TRUE, path |-> files[1], dirs |-> dirs]
    ELSE LET config_path == files[i] IN
         IF Exists(config_path)
         THEN [ok |-> TRUE, path |-> config_path, dirs |-> dirs]
         ELSE IF Len(config_path) > 1
              THEN IF CreateDirAllOk(Parent(config_path))
                   THEN [ok |-> TRUE, path |-> config_path,
                         dirs |-> dirs \cup Ancestors(Parent(config_path))]
                   ELSE [ok |-> FALSE, path |-> <<>>, dirs |-> dirs]
              ELSE WalkConfigFiles(files, i + 1)

\* find_profile(home_dir)
find_profile ==
    IF selected_shell = 0
    THEN [ok |-> FALSE, path |-> <<>>, dirs |-> dirs]
    ELSE WalkConfigFiles(SHELLS[selected_shell].config_files, 1)

\* get_profile without the fallback closure: the error of find_profile
\* reaches the caller
get_profile_strict ==
    LET found == find_profile IN
    IF ~homeDir \/ ~found.ok
    THEN [ok |-> FALSE, path |-> <<>>, dirs |-> found.dirs]
    ELSE [ok |-> canOpen, path |-> found.path, dirs |-> found.dirs]

\* get_profile(): the file opened with append(true).create(true)
get_profile ==
    IF ~homeDir
    THEN [ok |-> FALSE, path |-> <<>>, dirs |-> dirs]
    ELSE LET found == find_profile
             profile_path == IF found.ok THEN found.path ELSE DotProfile
         IN  [ok |-> canOpen, path |-> profile_path, dirs |-> found.dirs]

\* the text of a file, empty for one that is yet to be created
Content(c) == IF c = Absent THEN <<>> ELSE c

\* writeln!(profile, "\nexport {}={}", var, value)
SetLine(var, value) == <<LF, "export ", var, "=", value, LF>>
\* writeln!(profile, "\nexport {}=\"{}:${}\"", var, value, var)
AppendLine(var, value) == <<LF, "export ", var, "=", QUOTE, value, ":", "$", var, QUOTE, LF>>
\* writeln!(profile, "\nexport {}=\"${}:{}\"", var, value, var)
PrependLine(var, value) == <<LF, "export ", var, "=", QUOTE, "$", value, ":", var, QUOTE, LF>>

\* a write through the handle opened in append mode: truncating instead
WriteTruncating(old, text) == text

\* a write through the handle opened in append mode
WriteAppend(old, text) == Content(old) \o text

\* the Unix body shared by set/append/prepend: get_profile()?, writeln!, flush
UnixWrite(op, var, value, text) ==
    LET gp == get_profile IN
    /\ dirs' = gp.dirs
    /\ fs' = IF gp.ok THEN [fs EXCEPT ![gp.path] = WriteAppend(@, text)] ELSE fs
    /\ log' = IF gp.ok THEN Append(log, [path |-> gp.path, text |-> text]) ELSE log
    /\ last' = [op |-> op, var |-> var, value |-> value,
                res |-> IF gp.ok THEN "Ok" ELSE "Err",
                path |-> gp.path, wrote |-> gp.ok, pre |-> fs, preDirs |-> dirs]
    /\ calls' = calls + 1
    /\ UNCHANGED <<shellEnv, env, homeDir, canMkdir, canOpen, winVars>>

\* set(var, value), target_family = "unix"
set(var, value) ==
    /\ calls < MaxCalls
    /\ UnixWrite("set", var, value, SetLine(var, value))

\* append(var, value), target_family = "unix"
append(var, value) ==
    /\ calls < MaxCalls
    /\ UnixWrite("append", var, value, AppendLine(var, value))

\* prepend(var, value), target_family = "unix"
prepend(var, value) ==
    /\ calls < MaxCalls
    /\ UnixWrite("prepend", var, value, PrependLine(var, value))

\* check_or_set(var, value): env::var(&var).map(|_| ()).or_else(|_| set(var, value))
check_or_set(var, value) ==
    /\ calls < MaxCalls
    /\ IF EnvVarIsOk(env[var])
       THEN /\ last' = [op |-> "check_or_set", var |-> var, value |-> value,
                        res |-> "Ok", path |-> <<>>,
                        wrote |-> FALSE, pre |-> fs, preDirs |-> dirs]
            /\ calls' = calls + 1
            /\ UNCHANGED <<unixVars, env, winVars>>
       ELSE UnixWrite("check_or_set", var, value, SetLine(var, value))

\* ------------------------------------------------------------ Unix: Init
Chars(dir, name) == <<"/">> \o dir \o <<"/">> \o name
bin == <<"b", "i", "n">>

\* the values of SHELL: one per registry entry, one naming two entries,
\* unrecognised ones, the empty one, an absent and a badly encoded one
ShellEnvs ==
    {[st |-> "Present", val |-> Chars(bin, SHELLS[i].name)] : i \in 1..Len(SHELLS)}
    \cup {[st |-> "Present", val |-> Chars(bash, zsh)],
          [st |-> "Present", val |-> Chars(bin, <<"s", "h">>)],
          [st |-> "Present", val |-> <<>>],
          [st |-> "NotPresent", val |-> <<>>],
          [st |-> "NotUnicode", val |-> Chars(bin, zsh)]}

UserText == <<"user text">>
FishDir == <<".config", "fish">>

\* the files a call can reach under a value of SHELL
Reachable(se) ==
    LET v == IF EnvVarIsOk(se.st) THEN se.val ELSE <<>>
        hits == {i \in 1..Len(SHELLS) : Contains(v, SHELLS[i].name)}
    IN  IF hits = {} THEN {DotProfile}
        ELSE LET i == CHOOSE k \in hits : \A j \in hits : k <= j
             IN  ConfigFilesOf(i) \cup
                 (IF \E f \in ConfigFilesOf(i) : Len(f) > 1 THEN {DotProfile} ELSE {})

EnvStates == {[v \in Vars |-> IF v = "DUMMY" THEN st ELSE "Present"] :
                st \in {"Present", "NotPresent", "NotUnicode"}}

NoCall == [op |-> "none", var |-> "", value |-> "", res |-> "Ok",
           path |-> <<>>, wrote |-> FALSE, pre |-> <<>>, preDirs |-> {}]

InitUnix ==
    /\ shellEnv \in ShellEnvs
    /\ env \in EnvStates
    /\ homeDir \in BOOLEAN
    /\ \E present \in SUBSET Reachable(shellEnv) :
          fs = [p \in Paths |-> IF p \in present THEN UserText ELSE Absent]
    /\ dirs \in IF \E f \in Reachable(shellEnv) : Len(f) > 1
                THEN {d \in {{}, Ancestors(FishDir)} :
                        \A p \in Paths : (Len(p) > 1 /\ fs[p] # Absent) => Parent(p) \in d}
                ELSE {{}}
    /\ canMkdir \in IF \E f \in Reachable(shellEnv) : Len(f) > 1 THEN BOOLEAN ELSE {TRUE}
    /\ canOpen \in IF homeDir THEN BOOLEAN ELSE {TRUE}
    /\ docDir = FALSE /\ psDir = FALSE /\ profile = Absent
    /\ last = NoCall
    /\ log = <<>>
    /\ calls = 0

NextUnix ==
    \/ \E var \in Vars, value \in Vals : set(var, value)
    \/ \E var \in Vars, value \in Vals : append(var, value)
    \/ \E var \in Vars, value \in Vals : prepend(var, value)
    \/ \E var \in Vars, value \in Vals : check_or_set(var, value)

SpecUnix == InitUnix /\ [][NextUnix]_vars

\* ------------------------------------------------------ Windows: the script
\* "# ----------------------------------VER"
VerPrefix == "# ----------------------------------VER"
\* "# ----------------------------------SET_ENV_DEFS_END"
DefsEnd == "# ----------------------------------SET_ENV_DEFS_END"
\* env!("CARGO_PKG_VERSION") and the version of an earlier release
pkg_version == "<current version>"
old_version == "<earlier version>"
VerPlaceholder == "${VER}"
HelperDefs == "<helper function definitions>"

\* Iterator::position: index (from 1) of the first element for which the
\* test, given as the sequence of its results, is true; 0 if there is none
FirstIndex(tests) ==
    LET hits == {i \in 1..Len(tests) : tests[i]}
    IN  IF hits = {} THEN 0 ELSE CHOOSE i \in hits : \A j \in hits : i <= j

\* str::replace(from, to) for a one-token pattern
RECURSIVE Replace(_, _, _)
Replace(text, from, to) ==
    IF text = <<>> THEN <<>>
    ELSE (IF Head(text) = from THEN to ELSE <<Head(text)>>) \o Replace(Tail(text), from, to)

\* str::lines(): lines end at "\n", a "\r" before it is dropped with it, and
\* a final line that ends the text gets no empty successor
RECURSIVE StrLines(_)
StrLines(text) ==
    IF text = <<>> THEN <<>>
    ELSE LET nl == FirstIndex([i \in 1..Len(text) |-> text[i] = LF]) IN
         IF nl = 0 THEN <<text>>
         ELSE LET line == SubSeq(text, 1, nl - 1)
                  stripped == IF Len(line) > 0 /\ line[Len(line)] = CR
                              THEN SubSeq(line, 1, Len(line) - 1) ELSE line
              IN  <<stripped>> \o StrLines(SubSeq(text, nl + 1, Len(text)))

\* str::split("\r\n")
RECURSIVE SplitCRLF(_)
SplitCRLF(text) ==
    LET hits == {i \in 1..(Len(text) - 1) : text[i] = CR /\ text[i + 1] = LF} IN
    IF hits = {} THEN <<text>>
    ELSE LET i == CHOOSE k \in hits : \A j \in hits : k <= j
         IN  <<SubSeq(text, 1, i - 1)>> \o SplitCRLF(SubSeq(text, i + 2, Len(text)))

\* [&str]::join(sep)
RECURSIVE Join(_, _)
Join(parts, sep) ==
    IF parts = <<>> THEN <<>>
    ELSE IF Len(parts) = 1 THEN parts[1]
    ELSE parts[1] \o sep \o Join(Tail(parts), sep)

\* Vec::insert(idx, it), idx counted from 0
Insert(parts, idx, it) ==
    SubSeq(parts, 1, idx) \o <<it>> \o SubSeq(parts, idx + 1, Len(parts))

\* scripts/profile.ps1 as bundled: the version-comment line, the helper
\* definitions, the terminator line
profile_ps1 ==
    Join(<< <<VerPrefix, VerPlaceholder>>, <<HelperDefs>>, <<DefsEnd>> >>, <<CR, LF>>)

\* include_str!("../scripts/profile.ps1").replace("${VER}", pkg_version)
template == Replace(profile_ps1, VerPlaceholder, <<pkg_version>>)

starts_with(line, prefix) == Len(line) > 0 /\ line[1] = prefix

\* the version read back in do_prerequisites: lines.position(..) advances
\* the iterator past the version-comment line, lines.nth(pos) then skips
\* pos further lines and yields the next one; 0 when the iterator is exhausted
NthAfterPosition(lines, pos) ==
    IF 2 * pos + 2 <= Len(lines) THEN 2 * pos + 2 ELSE 0

\* do_prerequisites(): the result and the directory and script it leaves
do_prerequisites ==
    IF ~docDir
    THEN [res |-> "Exit", psDir |-> psDir, profile |-> profile]
    ELSE IF profile = Absent
    THEN [res |-> "Ok", psDir |-> TRUE, profile |-> template]
    ELSE LET lines == StrLines(profile)
             found == FirstIndex([i \in 1..Len(lines) |-> starts_with(lines[i], VerPrefix)])
         IN  IF found = 0
             THEN [res |-> "Ok", psDir |-> TRUE, profile |-> template]
             ELSE LET pos == found - 1
                      n == NthAfterPosition(lines, pos)
                  IN  IF n = 0
                      THEN [res |-> "Panic", psDir |-> TRUE, profile |-> profile]
                      ELSE IF Replace(lines[n], VerPrefix, <<>>) # <<pkg_version>>
                      THEN [res |-> "Ok", psDir |-> TRUE, profile |-> template]
                      ELSE [res |-> "Ok", psDir |-> TRUE, profile |-> profile]

\* the insertion of inject(it), falling back to the end of the text when
\* the terminator is missing
InsertBeforeDefsEndOrAtEnd(content, it) ==
    LET content_parts == SplitCRLF(content)
        found == FirstIndex([i \in 1..Len(content_parts) |-> content_parts[i] = <<DefsEnd>>])
        idx == IF found = 0 THEN Len(content_parts) ELSE found - 1
    IN  [res |-> "Ok", profile |-> Join(Insert(content_parts, idx, it), <<CR, LF>>)]

\* the insertion of inject(it) into the text the template check left
InsertBeforeDefsEnd(content, it) ==
    LET content_parts == SplitCRLF(content)
        found == FirstIndex([i \in 1..Len(content_parts) |-> content_parts[i] = <<DefsEnd>>])
    IN  IF found = 0
        THEN [res |-> "Panic", profile |-> content]
        ELSE [res |-> "Ok", profile |-> Join(Insert(content_parts, found - 1, it), <<CR, LF>>)]

\* inject(it)
inject(op, var, value, it) ==
    LET pre == do_prerequisites
        ins == IF pre.res = "Ok" THEN InsertBeforeDefsEnd(pre.profile, it)
               ELSE [res |-> pre.res, profile |-> pre.profile]
    IN  /\ psDir' = pre.psDir
        /\ profile' = ins.profile
        /\ last' = [op |-> op, var |-> var, value |-> value, it |-> it,
                    res |-> ins.res, prereq |-> pre.res, pre |-> profile,
                    checked |-> pre.profile, injected |-> TRUE]
        /\ calls' = calls + 1
        /\ UNCHANGED <<unixVars, env, docDir>>

\* format!("setenv_set {} {}", var, value) and its siblings
SetStatement(var, value) == <<"setenv_set ", var, " ", value>>
AppendStatement(var, value) == <<"setenv_append ", var, " ", value>>
PrependStatement(var, value) == <<"setenv_prepend ", var, " ", value>>

\* set(var, value), target_os = "windows"
set_windows(var, value) ==
    /\ calls < MaxCalls
    /\ inject("set", var, value, SetStatement(var, value))

\* append(var, value), target_os = "windows"
append_windows(var, value) ==
    /\ calls < MaxCalls
    /\ inject("append", var, value, AppendStatement(var, value))

\* prepend(var, value), target_os = "windows"
prepend_windows(var, value) ==
    /\ calls < MaxCalls
    /\ inject("prepend", var, value, PrependStatement(var, value))

\* check_or_set(var, value) where set is the Windows one
check_or_set_windows(var, value) ==
    /\ calls < MaxCalls
    /\ IF EnvVarIsOk(env[var])
       THEN /\ last' = [op |-> "check_or_set", var |-> var, value |-> value,
                        it |-> <<>>, res |-> "Ok", prereq |-> "Ok", pre |-> profile,
                        checked |-> profile, injected |-> FALSE]
            /\ calls' = calls + 1
            /\ UNCHANGED <<unixVars, env, winVars>>
       ELSE inject("check_or_set", var, value, SetStatement(var, value))

\* --------------------------------------------------------- Windows: Init
\* the lines a script found on disk is made of
ScriptLines ==
    {<<VerPrefix, pkg_version>>, <<VerPrefix, old_version>>, <<DefsEnd>>,
     <<HelperDefs>>, SetStatement("PATH", "0")}

\* the scripts found on disk: up to MaxLines lines, terminated in either style
ScriptsOnDisk ==
    UNION {{Join(ls, sep) : ls \in [1..n -> ScriptLines], sep \in {<<CR, LF>>, <<LF>>}} :
             n \in 0..MaxLines}

NoCallWindows == [op |-> "none", var |-> "", value |-> "", it |-> <<>>, res |-> "Ok",
                  prereq |-> "Ok", pre |-> Absent, checked |-> Absent, injected |-> FALSE]

InitWindows ==
    /\ \/ docDir = FALSE /\ psDir = FALSE /\ profile = Absent
       \/ docDir = TRUE /\ psDir \in BOOLEAN /\ profile = Absent
       \/ docDir = TRUE /\ psDir = TRUE /\ profile \in ScriptsOnDisk
    /\ env \in EnvStates
    /\ shellEnv = [st |-> "NotPresent", val |-> <<>>]
    /\ homeDir = FALSE /\ canMkdir = FALSE /\ canOpen = FALSE
    /\ fs = [p \in Paths |-> Absent]
    /\ dirs = {}
    /\ log = <<>>
    /\ last = NoCallWindows
    /\ calls = 0

NextWindows ==
    \/ \E value \in Vals : set_windows("DUMMY", value)
    \/ \E value \in Vals : append_windows("DUMMY", value)
    \/ \E value \in Vals : prepend_windows("DUMMY", value)
    \/ \E value \in Vals : check_or_set_windows("DUMMY", value)

SpecWindows == InitWindows /\ [][NextWindows]_vars

\* ================================================================= claims
\* helpers of the statements below
UnixCalled == last.op \in {"set", "append", "prepend", "check_or_set"}
UnixWriter == last.op \in {"set", "append", "prepend"}
ShellUnrecognised ==
    \/ shellEnv.st # "Present"
    \/ \A i \in 1..Len(SHELLS) : ~Contains(shellEnv.val, SHELLS[i].name)
LastLine(text) == LET ls == StrLines(text) IN IF ls = <<>> THEN <<>> ELSE ls[Len(ls)]
HasLine(text, line) == \E i \in 1..Len(StrLines(text)) : StrLines(text)[i] = line
RECURSIVE Flatten(_)
Flatten(texts) == IF texts = <<>> THEN <<>> ELSE Head(texts) \o Flatten(Tail(texts))
RECURSIVE TextsFor(_, _)
TextsFor(entries, p) ==
    IF entries = <<>> THEN <<>>
    ELSE (IF Head(entries).path = p THEN <<Head(entries).text>> ELSE <<>>)
         \o TextsFor(Tail(entries), p)

\* C1: check_or_set(V, X) with V set in the process environment, validly
\* encoded or not, returns success and leaves every profile file as it was
\* (stated where a write would go through: home known, profile can be opened).
C1_CheckOrSetOfSetVariableWritesNothing ==
    (last.op = "check_or_set" /\ env[last.var] # "NotPresent" /\ homeDir /\ canOpen)
        => (last.res = "Ok" /\ fs = last.pre /\ dirs = last.preDirs)

\* C3: prepend(VAR, VALUE) ends the resolved profile with the line
\* export VAR="$VAR:VALUE".
C3_PrependLineRefersToOwnName ==
    (last.op = "prepend" /\ last.wrote)
        => LastLine(fs[last.path]) =
             <<"export ", last.var, "=", QUOTE, "$", last.var, ":", last.value, QUOTE>>

\* C4: with SHELL absent, badly encoded, empty or naming no registry shell,
\* set/append/prepend (home directory known, the file can be opened) return
\* success and append their line to <home>/.profile, creating it if missing;
\* no other file changes.
C4_UnrecognisedShellFallsBackToDotProfile ==
    (UnixWriter /\ ShellUnrecognised /\ homeDir /\ canOpen)
        => /\ last.res = "Ok"
           /\ last.path = DotProfile
           /\ log # <<>>
           /\ fs[DotProfile] = Content(last.pre[DotProfile]) \o log[Len(log)].text
           /\ \A p \in Paths \ {DotProfile} : fs[p] = last.pre[p]

C4_Witness ==
    /\ last.op = "set" /\ ShellUnrecognised /\ shellEnv.st = "Present"
    /\ shellEnv.val # <<>>
    /\ last.res = "Ok"
    /\ last.pre[DotProfile] = Absent
    /\ fs[DotProfile] = SetLine(last.var, last.value)

\* C5: for a recognised shell (directory creation succeeding where needed)
\* the resolved profile is the earliest candidate, in table order, that
\* existed before the call, and the first candidate when none existed; with
\* SHELL=/bin/zsh and no candidate present set("DUMMY", "1") creates
\* .zprofile holding the line export DUMMY=1.
C5_EarliestExistingCandidateElseFirst ==
    (UnixCalled /\ last.path # <<>> /\ ~ShellUnrecognised
       /\ (canMkdir \/ FishDir \in last.preDirs))
        => LET files == SHELLS[selected_shell].config_files
               there == {j \in 1..Len(files) : last.pre[files[j]] # Absent}
               first == IF there = {} THEN 1
                        ELSE CHOOSE j \in there : \A k \in there : j <= k
           IN  /\ last.path = files[first]
               /\ (last.wrote /\ shellEnv.val = Chars(bin, zsh) /\ there = {}
                      /\ last.op = "set" /\ last.var = "DUMMY" /\ last.value = "1")
                    => (/\ last.path = <<".zprofile">>
                        /\ HasLine(fs[<<".zprofile">>], <<"export ", "DUMMY", "=", "1">>))

C5_Witness ==
    /\ last.op = "set" /\ last.wrote
    /\ shellEnv.val = Chars(bin, zsh)
    /\ last.pre[<<".zprofile">>] = Absent
    /\ last.pre[<<".zshrc">>] # Absent
    /\ last.pre[<<".zlogin">>] # Absent
    /\ last.path = <<".zshrc">>
    /\ fs[<<".zprofile">>] = Absent

\* C6: a call never truncates or rewrites: what a file held before a step is
\* a prefix of what it holds after; every file holds what it held at the
\* start followed by the texts written to it, in call order, one copy per call.
C6_FilesOnlyGrowInCallOrder ==
    /\ [][\A p \in Paths : IsPrefix(Content(fs[p]), Content(fs'[p]))]_vars
    /\ [](\A p \in Paths :
            \E start \in {<<>>, UserText} :
                Content(fs[p]) = start \o Flatten(TextsFor(log, p)))

C6_Witness ==
    /\ Len(log) = 2
    /\ log[1] = log[2]
    /\ log[1].text = SetLine("DUMMY", "1")
    /\ fs[log[1].path] = UserText \o SetLine("DUMMY", "1") \o SetLine("DUMMY", "1")

\* C8: with a recognised shell whose candidate lives in a subdirectory that
\* cannot be created, the call returns an I/O failure and writes to no file.
C8_DirectoryCreationFailureSurfaces ==
    (UnixCalled /\ homeDir /\ ~ShellUnrecognised /\ ~canMkdir
       /\ (last.op = "check_or_set" => ~EnvVarIsOk(env[last.var]))
       /\ \E f \in ConfigFilesOf(selected_shell) :
             Len(f) > 1 /\ last.pre[f] = Absent /\ Parent(f) \notin last.preDirs)
        => (last.res = "Err" /\ fs = last.pre)

\* helpers of the Windows statements
VersionLines(text) ==
    {i \in 1..Len(StrLines(text)) : starts_with(StrLines(text)[i], VerPrefix)}
FirstVersionLine(text) ==
    StrLines(text)[CHOOSE i \in VersionLines(text) : \A j \in VersionLines(text) : i <= j]
CarriesCurrentVersion(text) ==
    /\ text # Absent
    /\ VersionLines(text) # {}
    /\ FirstVersionLine(text) = <<VerPrefix, pkg_version>>
DefsEndParts(text) ==
    {i \in 1..Len(SplitCRLF(text)) : SplitCRLF(text)[i] = <<DefsEnd>>}
\* text with the line it inserted directly above the terminator at part i
WithLineAbove(text, i, it) == Join(Insert(SplitCRLF(text), i - 1, it), <<CR, LF>>)

\* C2: set on an existing script whose version-comment line carries the
\* current version and that holds the terminator: the template check leaves
\* the script alone and the result is the script with the one statement
\* inserted directly above the terminator, all other lines kept in order.
C2_SetOnCurrentScriptOnlyInserts ==
    (last.op = "set" /\ CarriesCurrentVersion(last.pre) /\ DefsEndParts(last.pre) # {})
        => /\ last.checked = last.pre
           /\ \E i \in DefsEndParts(last.pre) :
                 profile = WithLineAbove(last.pre, i, SetStatement(last.var, last.value))

\* C7: set/append/prepend on an existing script without a version-comment
\* line, or with another version, leave exactly the fresh template with the
\* one generated statement directly above its terminator.
C7_StaleScriptBecomesTemplatePlusStatement ==
    (last.op \in {"set", "append", "prepend"} /\ last.pre # Absent
       /\ ~CarriesCurrentVersion(last.pre))
        => /\ last.res = "Ok"
           /\ \E i \in DefsEndParts(template) : profile = WithLineAbove(template, i, last.it)

\* C9 as stated: a script that holds no terminator line when the operation
\* is invoked makes the operation abort and is left as it was.
C9_MissingTerminatorAtInvocationAborts ==
    (last.injected /\ last.pre # Absent /\ DefsEndParts(last.pre) = {})
        => (last.res = "Panic" /\ profile = last.pre)

\* C9 amended: a script that holds no terminator line once the template
\* check is through with it makes the operation abort and is left as it was
\* at invocation, no statement inserted.
C9_MissingTerminatorAfterTemplateCheckAborts ==
    (last.injected /\ last.pre # Absent /\ DefsEndParts(last.checked) = {})
        => (last.res = "Panic" /\ profile = last.pre)

C9_Witness ==
    /\ last.injected /\ last.pre # Absent
    /\ last.prereq = "Ok"
    /\ DefsEndParts(last.checked) = {}
    /\ last.res = "Panic"
    /\ profile = last.pre

\* C10: on every existing script the template check completes without
\* aborting and leaves the current template or the script as it was; the
\* line read for the version is the version-comment line that was located.
C10_TemplateCheckNeverAborts ==
    (last.injected /\ last.pre # Absent)
        => /\ last.prereq = "Ok"
           /\ last.checked \in {template, last.pre}
           /\ VersionLines(last.pre) # {}
                => LET lines == StrLines(last.pre)
                       found == FirstIndex([i \in 1..Len(lines) |-> starts_with(lines[i], VerPrefix)])
                   IN  NthAfterPosition(lines, found - 1) = found
====
